---- MODULE Spec2Model ----
(***************************************************************************)
(* A model of src/src/main_state.rs: a chain of point masses (Node) joined *)
(* by breakable, cuttable distance constraints (Constraint) and stepped by *)
(* MainState::update.                                                      *)
(*                                                                         *)
(* Numbers.  The source computes in f32.  The model computes in fixed      *)
(* point: a length, velocity, force or mass x is held as the integer       *)
(* round(x * Q); a unit vector is held with the finer resolution U; the    *)
(* source's fractional constants (DT, DRAG) are held as exact rationals    *)
(* <<numerator, denominator>>.  Every product and quotient is rounded to   *)
(* the nearest representable value (Rnd), as an f32 operation rounds to    *)
(* the nearest f32.  Sums, differences, comparisons and the products of    *)
(* the orientation test are exact.                                         *)
(***************************************************************************)
EXTENDS Integers, Sequences, FiniteSets, TLC

\* Fixed-point resolution: 1.0 is Q units (lengths, velocities, forces,
\* masses), and U units in a unit vector.
Q == 8
U == 1024

\* The constants of the source (lines 4-12).
DT == <<3, 20>>
G == 18
TARGET_DIST == 50
RIGIDITY == 1
DRAG == <<1, 2>>
\* The chain length.  The source sets 10; the model bounds the chain.
NUM_POINTS == 3

\* Literals of the source.
WIND_RADIUS == 30
WIND_SCALE == 50
SOLVE_PASSES == 5
BREAK_FACTOR == 5

\* How many update calls a behaviour makes.
MaxTicks == 2

---------------------------------------------------------------------------
\* Arithmetic

\* n / d rounded to the nearest integer, halves away from zero (d > 0).
Rnd(n, d) == IF n >= 0 THEN (2 * n + d) \div (2 * d) ELSE -((2 * (-n) + d) \div (2 * d))

\* x * r and x / r for a rational constant r.
MulR(x, r) == Rnd(x * r[1], r[2])
DivR(x, r) == Rnd(x * r[2], r[1])

\* x / m for a fixed-point divisor m (a mass).
DivQ(x, m) == Rnd(x * Q, m)

\* The real number n in fixed point.
Fx(n) == n * Q

RECURSIVE SqrtSearch(_, _, _)
SqrtSearch(n, lo, hi) ==
    IF lo >= hi THEN lo
    ELSE LET mid == (lo + hi + 1) \div 2
         IN IF mid * mid <= n THEN SqrtSearch(n, mid, hi) ELSE SqrtSearch(n, lo, mid - 1)

\* sqrt(n) rounded to the nearest integer.
Sqrt(n) ==
    LET s == SqrtSearch(n, 0, 46340)
    IN IF n - s * s > s THEN s + 1 ELSE s

\* Vec2
ZERO == <<0, 0>>
VAdd(v, w) == <<v[1] + w[1], v[2] + w[2]>>
VSub(v, w) == <<v[1] - w[1], v[2] - w[2]>>
VNeg(v) == <<-v[1], -v[2]>>
VMulR(v, r) == <<MulR(v[1], r), MulR(v[2], r)>>
VDivR(v, r) == <<DivR(v[1], r), DivR(v[2], r)>>
VDivQ(v, m) == <<DivQ(v[1], m), DivQ(v[2], m)>>
VTimes(v, k) == <<v[1] * k, v[2] * k>>

\* Vec2::length
Length(v) == Sqrt(v[1] * v[1] + v[2] * v[2])

\* Vec2::normalize_or_zero: the unit vector (resolution U), or zero for a
\* vector of length zero.
normalize_or_zero(v) ==
    LET len == Length(v)
    IN IF len = 0 THEN ZERO ELSE <<Rnd(v[1] * U, len), Rnd(v[2] * U, len)>>

\* A unit vector (resolution U) times a fixed-point scalar.
NormTimes(n, s) == <<Rnd(n[1] * s, U), Rnd(n[2] * s, U)>>

---------------------------------------------------------------------------
\* Node

\* impl Default for Node
node_default ==
    [last_pos |-> ZERO, pos |-> ZERO, vel |-> ZERO, force |-> ZERO,
     mass |-> Fx(1), fixed |-> FALSE]

\* Node::with_pos_and_mass: no argument is checked.
with_pos_and_mass(pos, mass) ==
    [node_default EXCEPT !.pos = pos, !.last_pos = pos, !.mass = mass]

integrate(node) ==
    IF node.fixed THEN node
    ELSE LET acc == VDivQ(node.force, node.mass)
             vel == VAdd(node.vel, VMulR(acc, DT))
         IN [node EXCEPT !.last_pos = node.pos,
                         !.vel = vel,
                         !.pos = VAdd(node.pos, VMulR(vel, DT))]

\* Faulty variant: differentiate without the reset of force.
differentiate_keeps_force(node) ==
    IF node.fixed THEN node
    ELSE [node EXCEPT !.vel = VDivR(VSub(node.pos, node.last_pos), DT)]

differentiate(node) ==
    IF node.fixed THEN node
    ELSE [node EXCEPT !.vel = VDivR(VSub(node.pos, node.last_pos), DT),
                      !.force = ZERO]

apply_gravity(node) ==
    IF node.fixed THEN node
    ELSE [node EXCEPT !.force = VAdd(node.force, <<0, G * node.mass>>)]

apply_drag(node) ==
    IF node.fixed THEN node
    ELSE [node EXCEPT !.force = VAdd(node.force, VMulR(VNeg(node.vel), DRAG))]

\* Faulty variant: add_offs without the test of fixed.
add_offs_unguarded(node, offs) ==
    [node EXCEPT !.pos = VAdd(node.pos, offs)]

add_offs(node, offs) ==
    IF ~node.fixed THEN [node EXCEPT !.pos = VAdd(node.pos, offs)] ELSE node

---------------------------------------------------------------------------
\* Constraint

\* Constraint::solve: the two offsets are computed from the positions
\* before either is applied.
\* Faulty variant: solve with diff = dist, the rest length not subtracted.
solve_no_rest(c, arena) ==
    LET a == arena[c.a]
        b == arena[c.b]
        r == VSub(b.pos, a.pos)
        dist == Length(r)
        norm == normalize_or_zero(r)
        diff == dist
        full == VDivQ(VTimes(NormTimes(norm, diff), RIGIDITY), a.mass + b.mass)
        offs == IF dist < Fx(TARGET_DIST) THEN VMulR(full, <<1, 2>>) ELSE full
        a_offs == VDivQ(offs, a.mass)
        b_offs == VDivQ(VNeg(offs), b.mass)
        moved == [arena EXCEPT ![c.a] = add_offs(arena[c.a], a_offs)]
    IN [moved EXCEPT ![c.b] = add_offs(moved[c.b], b_offs)]

solve(c, arena) ==
    LET a == arena[c.a]
        b == arena[c.b]
        r == VSub(b.pos, a.pos)
        dist == Length(r)
        norm == normalize_or_zero(r)
        diff == dist - Fx(TARGET_DIST)
        full == VDivQ(VTimes(NormTimes(norm, diff), RIGIDITY), a.mass + b.mass)
        offs == IF dist < Fx(TARGET_DIST) THEN VMulR(full, <<1, 2>>) ELSE full
        a_offs == VDivQ(offs, a.mass)
        b_offs == VDivQ(VNeg(offs), b.mass)
        moved == [arena EXCEPT ![c.a] = add_offs(arena[c.a], a_offs)]
    IN [moved EXCEPT ![c.b] = add_offs(moved[c.b], b_offs)]

---------------------------------------------------------------------------
\* MainState

VARIABLES
    arena,           \* MainState.arena: node index (from 0) -> Node
    constraints,     \* MainState.constraints: a sequence, in solving order
    last_mouse_pos,  \* MainState.last_mouse_pos
    mouse_pos,       \* what mouse_position() returned in the last call
    right_down,      \* what is_mouse_button_down(Right) returned in the last update
    prev_mouse_pos,  \* self.last_mouse_pos as the last update read it
    wind_added,      \* per node, the force apply_wind added in the last update
    broken,          \* the constraints the break filter removed in the last update
    cut_away,        \* the constraints the cut filter removed in the last update
    canvas,          \* what the last draw call drew
    built,           \* the Node the last Node::with_pos_and_mass call returned
    ticks            \* the number of calls made so far

vars == <<arena, constraints, last_mouse_pos, mouse_pos, right_down,
          prev_mouse_pos, wind_added, broken, cut_away, canvas, built, ticks>>

Indices(ar) == DOMAIN ar
Active(cs) == {cs[k] : k \in 1..Len(cs)}
Separation(ar, c) == Length(VSub(ar[c.a].pos, ar[c.b].pos))

\* The force apply_wind adds to one node (lines 137-140).
wind_on(node, current_mouse_pos, last) ==
    IF Length(VSub(node.pos, current_mouse_pos)) < Fx(WIND_RADIUS)
    THEN VTimes(VSub(current_mouse_pos, last), WIND_SCALE)
    ELSE ZERO

\* Faulty variant: apply_wind without the early return on the right button.
wind_forces_always(ar, last, current_mouse_pos, right) ==
    [i \in Indices(ar) |-> wind_on(ar[i], current_mouse_pos, last)]

\* MainState::apply_wind, as the force it adds to each node: nothing while
\* the right button is down.
wind_forces(ar, last, current_mouse_pos, right) ==
    IF right THEN [i \in Indices(ar) |-> ZERO]
    ELSE [i \in Indices(ar) |-> wind_on(ar[i], current_mouse_pos, last)]

apply_wind(ar, last, current_mouse_pos, right) ==
    LET w == wind_forces(ar, last, current_mouse_pos, right)
    IN [i \in Indices(ar) |-> [ar[i] EXCEPT !.force = VAdd(ar[i].force, w[i])]]

RECURSIVE solve_pass(_, _, _)
solve_pass(cs, k, ar) ==
    IF k > Len(cs) THEN ar ELSE solve_pass(cs, k + 1, solve(cs[k], ar))

RECURSIVE solve_passes(_, _, _)
solve_passes(n, cs, ar) ==
    IF n = 0 THEN ar ELSE solve_passes(n - 1, cs, solve_pass(cs, 1, ar))

\* MainState::solve_constraints
solve_constraints(cs, ar) == solve_passes(SOLVE_PASSES, cs, ar)

\* Faulty variant: the break filter with TARGET_DIST for break_threshold.
break_retain_at_rest(cs, ar) ==
    SelectSeq(cs, LAMBDA c : Separation(ar, c) < Fx(TARGET_DIST))

\* The break filter (lines 158-160).
break_retain(cs, ar) ==
    SelectSeq(cs, LAMBDA c : Separation(ar, c) < c.break_threshold)

\* fn ccw (lines 170-172)
ccw(a, b, c) ==
    (c[2] - a[2]) * (b[1] - a[1]) > (b[2] - a[2]) * (c[1] - a[1])

\* Faulty variant: intersects with || for &&.
intersects_either(a, b, c, d) ==
    (ccw(a, c, d) # ccw(b, c, d)) \/ (ccw(a, b, c) # ccw(a, b, d))

\* let intersects (line 174)
intersects(a, b, c, d) ==
    (ccw(a, c, d) # ccw(b, c, d)) /\ (ccw(a, b, c) # ccw(a, b, d))

\* Faulty variant: the cut filter retaining intersects, not !intersects.
cut_retain_inverted(cs, ar, right, mouse, last) ==
    IF right
    THEN SelectSeq(cs, LAMBDA k : intersects(ar[k.a].pos, ar[k.b].pos, mouse, last))
    ELSE cs

\* Faulty variant: the cut filter zeroing the break_threshold of a cut
\* constraint instead of removing it.
cut_retain_marks(cs, ar, right, mouse, last) ==
    IF right
    THEN [k \in 1..Len(cs) |->
            IF intersects(ar[cs[k].a].pos, ar[cs[k].b].pos, mouse, last)
            THEN [cs[k] EXCEPT !.break_threshold = 0] ELSE cs[k]]
    ELSE cs

\* The cut filter (lines 161-177).
cut_retain(cs, ar, right, mouse, last) ==
    IF right
    THEN SelectSeq(cs, LAMBDA k : ~intersects(ar[k.a].pos, ar[k.b].pos, mouse, last))
    ELSE cs

Map(ar, Op(_)) == [i \in Indices(ar) |-> Op(ar[i])]

\* MainState::update, lines 153-178: what it computes from the state it is
\* called on and the pointer it reads.  The pointer and the button cannot
\* change within one call: the frame loop is single-threaded.
step(ar, cs, last, mouse, right) ==
    LET forced == Map(Map(ar, apply_gravity), apply_drag)
        wind == wind_forces(forced, last, mouse, right)
        winded == apply_wind(forced, last, mouse, right)
        integrated == Map(winded, integrate)
        relaxed == solve_constraints(cs, integrated)
        kept == break_retain(cs, relaxed)
        left == cut_retain(kept, relaxed, right, mouse, last)
    IN [arena |-> Map(relaxed, differentiate),
        constraints |-> left,
        wind_added |-> wind,
        broken |-> Active(cs) \ Active(kept),
        cut_away |-> Active(kept) \ Active(left)]

\* Faulty variant: update with line 179 moved to its start.
update_records_first(ar, cs, last, mouse, right) ==
    step(ar, cs, mouse, mouse, right) @@ [last_mouse_pos |-> mouse, read_last |-> last]

\* MainState::update: the step, then line 179.
update(ar, cs, last, mouse, right) ==
    step(ar, cs, last, mouse, right) @@ [last_mouse_pos |-> mouse, read_last |-> last]

\* MainState::draw: a line per constraint, a circle per node.
draw(ar, cs) ==
    [lines |-> [k \in 1..Len(cs) |-> <<ar[cs[k].a].pos, ar[cs[k].b].pos>>],
     circles |-> [i \in Indices(ar) |-> <<ar[i].pos, ar[i].fixed>>]]

\* The window (screen_width(), screen_height()) the chain is laid out in.
Screen == [width |-> 3840, height |-> 2160]

\* Where MainState::default puts node i (line 214).
initial_pos(i) ==
    <<Rnd(Fx(Screen.width), 3), Rnd(Fx(Screen.height), 5) + Fx(TARGET_DIST) * i>>

\* The mass MainState::default gives node i (line 215): 1.0 + (i / 20)^2 * 0.0
initial_mass(i) == Fx(1) + Rnd(Fx(i * i), 400) * 0

\* MainState::default: the arena and the constraints.
default_arena ==
    [i \in 0..(NUM_POINTS - 1) |->
        [with_pos_and_mass(initial_pos(i), initial_mass(i)) EXCEPT !.fixed = (i = 0)]]

default_constraints ==
    [i \in 1..(NUM_POINTS - 1) |->
        [a |-> i - 1, b |-> i, break_threshold |-> Fx(TARGET_DIST) * BREAK_FACTOR]]

---------------------------------------------------------------------------
\* The program: MainState::default, then update and draw calls in any order.

Px(x, y) == <<Fx(x), Fx(y)>>

\* The pointer positions tried, relative to the chain: the left edge of the
\* window at the height of the last node, on the last node, on the fixed
\* node, left and right of the first constraint, and on the first
\* constraint.
MousePoints ==
    LET top == initial_pos(0)
        last == initial_pos(NUM_POINTS - 1)
    IN {<<0, last[2]>>, last, top,
        VAdd(top, Px(-50, 25)), VAdd(top, Px(50, 25)), VAdd(top, Px(0, 25))}

NoWind(ar) == [i \in Indices(ar) |-> ZERO]
NothingDrawn == [lines |-> <<>>, circles |-> <<>>]

Init ==
    /\ arena = default_arena
    /\ constraints = default_constraints
    /\ last_mouse_pos \in MousePoints
    /\ mouse_pos = last_mouse_pos
    /\ right_down = FALSE
    /\ prev_mouse_pos = last_mouse_pos
    /\ wind_added = NoWind(arena)
    /\ broken = {}
    /\ cut_away = {}
    /\ canvas = NothingDrawn
    /\ built = arena[NUM_POINTS - 1]
    /\ ticks = 0

UpdateWith(mouse, right) ==
    \E u \in {update(arena, constraints, last_mouse_pos, mouse, right)} :
       /\ arena' = u.arena
       /\ constraints' = u.constraints
       /\ last_mouse_pos' = u.last_mouse_pos
       /\ mouse_pos' = mouse
       /\ right_down' = right
       /\ prev_mouse_pos' = u.read_last
       /\ wind_added' = u.wind_added
       /\ broken' = u.broken
       /\ cut_away' = u.cut_away
       /\ ticks' = ticks + 1
       /\ UNCHANGED <<canvas, built>>

Update ==
    /\ ticks < MaxTicks
    /\ \E mouse \in MousePoints, right \in BOOLEAN : UpdateWith(mouse, right)

Draw ==
    /\ canvas' = draw(arena, constraints)
    /\ UNCHANGED <<arena, constraints, last_mouse_pos, mouse_pos, right_down,
                   prev_mouse_pos, wind_added, broken, cut_away, built, ticks>>

Next == Update \/ Draw

Spec == Init /\ [][Next]_vars

---------------------------------------------------------------------------
\* The cut filter alone, on every placement of a constraint and a pointer
\* segment on a grid.

\* The grid: GridN by GridN points, 40 apart.
GridN == 4
GridPoints == {Px(40 * gx, 40 * gy) : gx \in 0..(GridN - 1), gy \in 0..(GridN - 1)}

one_constraint == <<[a |-> 0, b |-> 1, break_threshold |-> Fx(TARGET_DIST) * BREAK_FACTOR]>>

InitCut ==
    /\ \E pa \in GridPoints, pb \in GridPoints :
          arena = (0 :> with_pos_and_mass(pa, Fx(1))) @@ (1 :> with_pos_and_mass(pb, Fx(1)))
    /\ constraints = one_constraint
    /\ last_mouse_pos \in GridPoints
    /\ mouse_pos = last_mouse_pos
    /\ right_down = FALSE
    /\ prev_mouse_pos = last_mouse_pos
    /\ wind_added = NoWind(arena)
    /\ broken = {}
    /\ cut_away = {}
    /\ canvas = NothingDrawn
    /\ built = arena[1]
    /\ ticks = 0

\* Lines 161-177 and 179 of update.
CutStep ==
    /\ ticks = 0
    /\ \E mouse \in GridPoints, right \in BOOLEAN :
         \E left \in {cut_retain(constraints, arena, right, mouse, last_mouse_pos)} :
            /\ constraints' = left
            /\ cut_away' = Active(constraints) \ Active(left)
            /\ mouse_pos' = mouse
            /\ right_down' = right
            /\ prev_mouse_pos' = last_mouse_pos
            /\ last_mouse_pos' = mouse
            /\ ticks' = ticks + 1
            /\ UNCHANGED <<arena, wind_added, broken, canvas, built>>

SpecCut == InitCut /\ [][CutStep]_vars

---------------------------------------------------------------------------
\* Constraint::solve alone, on two nodes of any masses and fixed flags.

SolveOffsets == {0, 14, 30, 40, 48, 50}
SolveMasses == {Q \div 2, Q, 2 * Q}

InitSolve ==
    /\ \E dx \in SolveOffsets, dy \in SolveOffsets, ma \in SolveMasses, mb \in SolveMasses,
          fa \in BOOLEAN, fb \in BOOLEAN :
          arena = (0 :> [with_pos_and_mass(Px(100, 100), ma) EXCEPT !.fixed = fa])
                  @@ (1 :> [with_pos_and_mass(Px(100 + dx, 100 + dy), mb) EXCEPT !.fixed = fb])
    /\ constraints = one_constraint
    /\ last_mouse_pos = ZERO
    /\ mouse_pos = last_mouse_pos
    /\ right_down = FALSE
    /\ prev_mouse_pos = last_mouse_pos
    /\ wind_added = NoWind(arena)
    /\ broken = {}
    /\ cut_away = {}
    /\ canvas = NothingDrawn
    /\ built = arena[1]
    /\ ticks = 0

SolveStep ==
    /\ ticks < MaxTicks
    /\ arena' = solve(constraints[1], arena)
    /\ ticks' = ticks + 1
    /\ UNCHANGED <<constraints, last_mouse_pos, mouse_pos, right_down, prev_mouse_pos,
                   wind_added, broken, cut_away, canvas, built>>

SpecSolve == InitSolve /\ [][SolveStep]_vars

---------------------------------------------------------------------------
\* Node::with_pos_and_mass alone, on any mass.

NodeMasses == {m * (Q \div 2) : m \in -2..4}

InitNode ==
    /\ arena = default_arena
    /\ constraints = default_constraints
    /\ last_mouse_pos = ZERO
    /\ mouse_pos = last_mouse_pos
    /\ right_down = FALSE
    /\ prev_mouse_pos = last_mouse_pos
    /\ wind_added = NoWind(arena)
    /\ broken = {}
    /\ cut_away = {}
    /\ canvas = NothingDrawn
    /\ built = node_default
    /\ ticks = 0

NewNode ==
    /\ ticks < MaxTicks
    /\ \E pos \in GridPoints, mass \in NodeMasses : built' = with_pos_and_mass(pos, mass)
    /\ ticks' = ticks + 1
    /\ UNCHANGED <<arena, constraints, last_mouse_pos, mouse_pos, right_down,
                   prev_mouse_pos, wind_added, broken, cut_away, canvas>>

SpecNode == InitNode /\ [][NewNode]_vars

---------------------------------------------------------------------------
\* Geometry the claims are stated in, by the parameters of the common
\* point: A + s (B - A) = C + t (D - C), s = sN / den, t = tN / den.

Cross(v, w) == v[1] * w[2] - v[2] * w[1]
Between(lo, x, hi) == (lo <= x /\ x <= hi) \/ (hi <= x /\ x <= lo)
StrictlyInside(n, den) == (0 < n /\ n < den) \/ (den < n /\ n < 0)
Inside(n, den) == (0 <= n /\ n <= den) \/ (den <= n /\ n <= 0)

\* The segments AB and CD cross at one point interior to both.
ProperCross(A, B, C, D) ==
    LET den == Cross(VSub(B, A), VSub(D, C))
        sN == Cross(VSub(C, A), VSub(D, C))
        tN == Cross(VSub(C, A), VSub(B, A))
    IN den # 0 /\ StrictlyInside(sN, den) /\ StrictlyInside(tN, den)

\* P lies on the segment AB (its endpoints included).
OnSegment(P, A, B) ==
    /\ Cross(VSub(B, A), VSub(P, A)) = 0
    /\ Between(A[1], P[1], B[1])
    /\ Between(A[2], P[2], B[2])

\* The segments AB and CD have a point in common.
CommonPoint(A, B, C, D) ==
    LET den == Cross(VSub(B, A), VSub(D, C))
        sN == Cross(VSub(C, A), VSub(D, C))
        tN == Cross(VSub(C, A), VSub(B, A))
    IN IF den # 0 THEN Inside(sN, den) /\ Inside(tN, den)
       ELSE OnSegment(A, C, D) \/ OnSegment(B, C, D) \/ OnSegment(C, A, B) \/ OnSegment(D, A, B)

\* Where node i was when the last update began: integrate saves it in
\* last_pos, and a fixed node never moves.
StartPos(i) == IF arena[i].fixed THEN arena[i].pos ELSE arena[i].last_pos
EndA(c) == arena[c.a].pos
EndB(c) == arena[c.b].pos

---------------------------------------------------------------------------
\* The claims

\* C1: a fixed node (node 0 is one) has the position and the velocity it
\* was constructed with, after any updates.
C1_FixedNodeStays ==
    /\ arena[0].fixed
    /\ \A i \in Indices(arena) :
          arena[i].fixed => arena[i].pos = initial_pos(i) /\ arena[i].vel = ZERO

\* C1 witness: the constraint tied to the fixed node was relaxed and then
\* removed, and a later update blew wind on the fixed node.
C1_Witness ==
    /\ ticks > 1
    /\ wind_added[0] # ZERO
    /\ arena[0].force # ZERO
    /\ arena[1].pos # initial_pos(1)
    /\ \A c \in Active(constraints) : c.a # 0

\* C2: after an update every constraint still active spans less than its
\* break_threshold, and every constraint the break filter removed spans at
\* least its break_threshold.
C2_BreakAtThreshold ==
    /\ \A c \in Active(constraints) : Separation(arena, c) < c.break_threshold
    /\ \A c \in broken : Separation(arena, c) >= c.break_threshold

\* C2 witness: an update broke one constraint and kept another.
C2_Witness == broken # {} /\ constraints # <<>>

\* C3: with the button held, no constraint left after the cut filter
\* properly crosses the pointer segment, and every constraint the filter
\* removed has a point in common with the pointer segment.
C3_CutExact ==
    right_down =>
        /\ \A c \in Active(constraints) :
              ~ProperCross(EndA(c), EndB(c), prev_mouse_pos, mouse_pos)
        /\ \A c \in cut_away :
              CommonPoint(EndA(c), EndB(c), prev_mouse_pos, mouse_pos)

\* C3 witness: the filter removed a constraint that properly crosses the
\* pointer segment.
C3_Witness ==
    /\ right_down
    /\ \E c \in cut_away : ProperCross(EndA(c), EndB(c), prev_mouse_pos, mouse_pos)

\* C4: an update with the button held adds no wind force to any node, and
\* an update with the button up cuts no constraint.
C4_WindXorCut ==
    /\ right_down => wind_added = NoWind(arena)
    /\ ~right_down => cut_away = {}

\* C4 witness: the button was held while the pointer moved and ended within
\* the wind radius of a node.
C4_Witness ==
    /\ ticks > 0
    /\ right_down
    /\ mouse_pos # prev_mouse_pos
    /\ \E i \in Indices(arena) : Length(VSub(StartPos(i), mouse_pos)) < Fx(WIND_RADIUS)

\* C5, as claimed: a node is never constructed with a mass of zero or less.
C5_MassRejected == built.mass > 0

\* C6: a call only removes constraints, and changes neither the number of
\* nodes nor a fixed flag.
C6_OnlyRemoval ==
    [][/\ Active(constraints') \subseteq Active(constraints)
       /\ Len(constraints') <= Len(constraints)
       /\ Indices(arena') = Indices(arena)
       /\ \A i \in Indices(arena) : arena'[i].fixed = arena[i].fixed]_vars

\* C6 witness: a constraint was removed, and the rest was drawn.
C6_Witness ==
    /\ Len(constraints) < NUM_POINTS - 1
    /\ canvas # NothingDrawn
    /\ Len(canvas.lines) = Len(constraints)

\* C7: solve moves neither endpoint of a constraint whose endpoints are
\* TARGET_DIST apart, or at the same place.
C7_RestIsFixedPoint ==
    [][\A c \in Active(constraints) :
          (Separation(arena, c) = Fx(TARGET_DIST) \/ EndA(c) = EndB(c))
             => /\ arena'[c.a].pos = arena[c.a].pos
                /\ arena'[c.b].pos = arena[c.b].pos]_vars

\* C7 witness: solve ran on two free nodes of different masses that were
\* TARGET_DIST apart, off the axes.
C7_Witness ==
    /\ ticks > 0
    /\ \A i \in Indices(arena) : arena[i].pos = arena[i].last_pos /\ ~arena[i].fixed
    /\ arena[0].mass # arena[1].mass
    /\ VSub(arena[1].pos, arena[0].pos) = Px(30, 40)

\* C8, as claimed: after an update the force of every node is zero.
C8_ForceResetAll == \A i \in Indices(arena) : arena[i].force = ZERO

\* C8, amended: after an update the force of every node that is not fixed
\* is zero.
C8_ForceResetFree ==
    \A i \in Indices(arena) : ~arena[i].fixed => arena[i].force = ZERO

\* C8 witness: an update added wind to a free node.
C8_Witness ==
    /\ ticks > 0
    /\ \E i \in Indices(arena) : ~arena[i].fixed /\ wind_added[i] # ZERO

\* C9: an update stores the pointer position last.  Its wind is (current -
\* stored) * 50 on the nodes in range at its start; its break filter takes
\* the constraints at or over their threshold; its cut filter takes, of the
\* rest and at the same positions, those that intersect the segment from
\* the current to the stored position; then the current position is stored.
C9_PointerStoredLast ==
    [][ticks' = ticks + 1 =>
         /\ last_mouse_pos' = mouse_pos'
         /\ wind_added' =
              [i \in Indices(arena) |->
                 IF ~right_down' /\ Length(VSub(arena[i].pos, mouse_pos')) < Fx(WIND_RADIUS)
                 THEN VTimes(VSub(mouse_pos', last_mouse_pos), WIND_SCALE)
                 ELSE ZERO]
         /\ broken' = {c \in Active(constraints) :
                          Separation(arena', c) >= c.break_threshold}
         /\ cut_away' = {c \in Active(constraints) \ broken' :
                          /\ right_down'
                          /\ intersects(arena'[c.a].pos, arena'[c.b].pos,
                                        mouse_pos', last_mouse_pos)}
         /\ Active(constraints') = Active(constraints) \ (broken' \cup cut_away')]_vars

\* C9 witness: a second update blew wind from the position the first one
\* stored.
C9_Witness ==
    /\ ticks > 1
    /\ last_mouse_pos = mouse_pos
    /\ \E i \in Indices(arena) : wind_added[i] # ZERO

\* C10: an update whose pointer is where the stored position is cuts
\* nothing.
C10_StationaryNeverCuts == (mouse_pos = prev_mouse_pos) => cut_away = {}

\* C10 witness: the button was held with the pointer at rest on an active
\* constraint.
C10_Witness ==
    /\ ticks > 0
    /\ right_down
    /\ mouse_pos = prev_mouse_pos
    /\ \E c \in Active(constraints) : OnSegment(mouse_pos, EndA(c), EndB(c))

====
